---- MODULE Spec2Model ----
\* Model of src/convert.py: the YUVReader constructor, its extension dispatch
\* (_read), and the two per-frame strategies (_read_yuv, _read_y).
\*
\* Strings are sequences of tokens.  "/" and "." are tokens of their own and
\* every other token ("out", "yuv", "0", "_y", ...) stands for a run of
\* characters containing neither, so str.split('/') and str.split('.') act on
\* tokens exactly as they act on characters.  All paths are relative.
\* size and fps only appear as arguments of the external commands and are
\* not part of the state.
EXTENDS Integers, Sequences, FiniteSets, TLC

VARIABLES input, out_dir, start, end, clean,
          n_frames, ext, frames,
          pc, ret, strategy, yuvIn, idx,
          dirExists, files, log

vars == <<input, out_dir, start, end, clean, n_frames, ext, frames,
          pc, ret, strategy, yuvIn, idx, dirExists, files, log>>

\* ---------------------------------------------------------------- bounds
MaxIdx == 2

\* ---------------------------------------------------------------- strings
Last(s) == s[Len(s)]

RECURSIVE Split(_, _)
\* Python str.split(sep): keeps empty segments
Split(s, sep) ==
    IF s = <<>> THEN << <<>> >>
    ELSE IF Head(s) = sep THEN << <<>> >> \o Split(Tail(s), sep)
    ELSE LET r == Split(Tail(s), sep)
         IN  << <<Head(s)>> \o Head(r) >> \o Tail(r)

NonEmpty(c) == c # <<>>

\* the file a path string names: its components, empty ones ("//", trailing
\* "/") dropped as the operating system does
Resolve(p) == SelectSeq(Split(p, "/"), NonEmpty)

IsPrefix(d, p) == Len(d) <= Len(p) /\ SubSeq(p, 1, Len(d)) = d

get_file_extension(file_path) == Last(Split(Last(Split(file_path, "/")), "."))

\* "{idx}_{c}.png"
PngName(i, c) == <<ToString(i), "_", c, ".", "png">>

\* ---------------------------------------------------------------- inputs
InputPaths ==
    { <<"videos", "/", "a", ".", "yuv">>,
      <<"a", ".", "y">>,
      <<"videos", "/", "a", ".", "mp4">>,
      <<"a", ".", "b", ".", "mp4">>,
      <<"a", ".", "avi">>,
      <<"d", ".", "mp4", "/", "yuv">>,
      <<"a">> }

OutDirs == { <<"out", "/">>, <<"out">> }

AllChannels == <<"y", "u", "v">>

NoExt == <<"<unset>">>
NoPath == <<>>
Seq2Set(s) == { s[k] : k \in 1..Len(s) }

\* ---------------------------------------------------------------- helpers
\* the test written as n_frames < 0
ValidCount_m(n) == n >= 0

\* n_frames <= 0 is the fatal case of __init__
ValidCount(n) == n > 0

\* the first test written as an else branch
IsYuv_m(e) == e # <<"y">> /\ e # <<"mp4">>

\* the three tests of _read
IsYuv(e) == e = <<"yuv">>
IsY(e) == e = <<"y">>
IsMp4(e) == e = <<"mp4">>

\* _read_y building the three-key dict of _read_yuv
Channels_m(s) == AllChannels

\* the keys of the dict literal each strategy builds
Channels(s) == IF s = "y" THEN <<"y">> ELSE AllChannels

\* the path each strategy hands to imread
ImreadPath(s, od, i, c) ==
    IF s = "y" THEN od \o <<"/">> \o PngName(i, c)
    ELSE od \o PngName(i, c)

\* the mp4 branch handing the mp4 path on
OutYuv_m(od, inp) == inp

\* out_yuv of the mp4 branch
OutYuv(od, inp) == od \o Head(Split(Last(Split(inp, "/")), ".")) \o <<".", "yuv">>

\* a loop that includes end, and one that steps by two
InRange_m(i, e) == i <= e
NextIdx_m(i) == i + 2

\* range(start, end): the loop runs while idx < end
InRange(i, e) == i < e
NextIdx(i) == i + 1

\* where the converter scripts put the image of channel c of frame i
ConverterOut(od, i, c) == od \o <<"/">> \o PngName(i, c)

\* shutil.rmtree(out_dir): every file below the directory goes
RmTree(fs, od) ==
    LET keep == { p \in DOMAIN fs : ~IsPrefix(Resolve(od), p) }
    IN  [p \in keep |-> fs[p]]

Event(e, i, c, p, d) == [ev |-> e, idx |-> i, chan |-> c, path |-> p, dir |-> d]

\* image files already in place before the construction, for the frames in
\* I, at the paths strategy s reads (left by an earlier run that did not
\* clean up)
Leftover(s, od, I) ==
    LET names == { Resolve(ImreadPath(s, od, i, c)) : i \in I, c \in Seq2Set(AllChannels) }
    IN  [p \in names |-> [by |-> "earlier", idx |-> -1]]

\* entering the loop of a strategy
Enter(s, inp, r) ==
    /\ strategy' = s
    /\ yuvIn' = inp
    /\ ret' = r
    /\ idx' = start
    /\ pc' = IF InRange(start, end) THEN "call" ELSE "clean"

\* ---------------------------------------------------------------- Init
Init ==
    /\ input \in InputPaths
    /\ out_dir \in OutDirs
    /\ start \in 0..MaxIdx
    /\ end \in 0..MaxIdx
    /\ clean \in BOOLEAN
    /\ n_frames = 0
    /\ ext = NoExt
    /\ frames = << >>
    /\ pc = "new"
    /\ ret = "done"
    /\ strategy = "none"
    /\ yuvIn = NoPath
    /\ idx = 0
    /\ log = << >>
    /\ \E s \in {"yuv", "y"}, I \in SUBSET (0..(MaxIdx - 1)) :
          /\ files = Leftover(s, out_dir, I)
          /\ dirExists \in { b \in BOOLEAN :
                 (\E p \in DOMAIN files : IsPrefix(Resolve(out_dir), p)) => b }

\* ---------------------------------------------------------------- actions
\* __init__, lines 42-56
Construct ==
    /\ pc = "new"
    /\ dirExists' = TRUE
    /\ frames' = << >>
    /\ n_frames' = end - start
    /\ IF ValidCount(end - start)
       THEN /\ pc' = "ext"
            /\ log' = log
       ELSE /\ pc' = "exited"
            /\ log' = Append(log, Event("exit", -1, "", NoPath, NoPath))
    /\ UNCHANGED <<input, out_dir, start, end, clean, ext, ret, strategy,
                   yuvIn, idx, files>>

\* __init__, line 57
GetExt ==
    /\ pc = "ext"
    /\ ext' = get_file_extension(input)
    /\ pc' = "if_yuv"
    /\ UNCHANGED <<input, out_dir, start, end, clean, n_frames, frames, ret,
                   strategy, yuvIn, idx, dirExists, files, log>>

\* _read, lines 98-100
IfYuv ==
    /\ pc = "if_yuv"
    /\ IF IsYuv(ext)
       THEN Enter("yuv", input, "if_y")
       ELSE /\ pc' = "if_y"
            /\ UNCHANGED <<strategy, yuvIn, ret, idx>>
    /\ UNCHANGED <<input, out_dir, start, end, clean, n_frames, ext, frames,
                   dirExists, files, log>>

\* _read, lines 102-104
IfY ==
    /\ pc = "if_y"
    /\ IF IsY(ext)
       THEN Enter("y", input, "if_mp4")
       ELSE /\ pc' = "if_mp4"
            /\ UNCHANGED <<strategy, yuvIn, ret, idx>>
    /\ UNCHANGED <<input, out_dir, start, end, clean, n_frames, ext, frames,
                   dirExists, files, log>>

\* _read, lines 106-111: the transcoder runs, its exit code is dropped, and
\* it may or may not have written out_yuv
IfMp4 ==
    /\ pc = "if_mp4"
    /\ IF IsMp4(ext)
       THEN /\ Enter("yuv", OutYuv(out_dir, input), "done")
            /\ log' = Append(log, Event("ffmpeg", -1, "", input, OutYuv(out_dir, input)))
            /\ \E ok \in BOOLEAN :
                  files' = IF ok
                           THEN LET o == Resolve(OutYuv(out_dir, input))
                                IN  [p \in DOMAIN files \cup {o} |->
                                       IF p = o THEN [by |-> "ffmpeg", idx |-> -1]
                                       ELSE files[p]]
                           ELSE files
       ELSE /\ pc' = "done"
            /\ UNCHANGED <<strategy, yuvIn, ret, idx, log, files>>
    /\ UNCHANGED <<input, out_dir, start, end, clean, n_frames, ext, frames,
                   dirExists>>

\* _read_yuv lines 76-77, _read_y lines 88-89: the converter runs for idx and
\* writes any subset W of the channel images; nothing looks at its exit code
Call ==
    /\ pc = "call"
    /\ \E W \in SUBSET Seq2Set(Channels(strategy)) :
          LET out == { Resolve(ConverterOut(out_dir, idx, c)) : c \in W }
          IN  files' = [p \in DOMAIN files \cup out |->
                          IF p \in out THEN [by |-> "converter", idx |-> idx]
                          ELSE files[p]]
    /\ log' = Append(log, Event("call", idx, "", yuvIn, out_dir))
    /\ pc' = "imread"
    /\ UNCHANGED <<input, out_dir, start, end, clean, n_frames, ext, frames,
                   ret, strategy, yuvIn, idx, dirExists>>

Present(c) == Resolve(ImreadPath(strategy, out_dir, idx, c)) \in DOMAIN files

ImreadEvents(n) ==
    [k \in 1..n |-> Event("imread", idx, Channels(strategy)[k],
                          ImreadPath(strategy, out_dir, idx, Channels(strategy)[k]),
                          NoPath)]

\* lines 78-81 / 90-91 when every image is there: the frame is stored and
\* the loop goes on
ImreadStore ==
    /\ pc = "imread"
    /\ \A c \in Seq2Set(Channels(strategy)) : Present(c)
    /\ LET chans == Seq2Set(Channels(strategy))
           frame == [c \in chans |->
                       files[Resolve(ImreadPath(strategy, out_dir, idx, c))]]
       IN  frames' = [i \in DOMAIN frames \cup {idx} |->
                        IF i = idx THEN frame ELSE frames[i]]
    /\ log' = log \o ImreadEvents(Len(Channels(strategy)))
                  \o <<Event("store", idx, "", NoPath, NoPath)>>
    /\ idx' = NextIdx(idx)
    /\ pc' = IF InRange(NextIdx(idx), end) THEN "call" ELSE "clean"
    /\ UNCHANGED <<input, out_dir, start, end, clean, n_frames, ext, ret,
                   strategy, yuvIn, dirExists, files>>

\* the read wrapped in try/except: a missing image skips the frame
ImreadRaise_m ==
    /\ pc = "imread"
    /\ \E k \in 1..Len(Channels(strategy)) :
          /\ ~Present(Channels(strategy)[k])
          /\ \A j \in 1..(k - 1) : Present(Channels(strategy)[j])
          /\ log' = log \o ImreadEvents(k)
                        \o <<Event("raise", idx, Channels(strategy)[k], NoPath, NoPath)>>
    /\ idx' = NextIdx(idx)
    /\ pc' = IF InRange(NextIdx(idx), end) THEN "call" ELSE "clean"
    /\ UNCHANGED <<input, out_dir, start, end, clean, n_frames, ext, frames,
                   ret, strategy, yuvIn, dirExists, files>>

\* lines 78-80 / 90 when an image is missing: imread raises at the first
\* missing one and nothing catches it
ImreadRaise ==
    /\ pc = "imread"
    /\ \E k \in 1..Len(Channels(strategy)) :
          /\ ~Present(Channels(strategy)[k])
          /\ \A j \in 1..(k - 1) : Present(Channels(strategy)[j])
          /\ log' = log \o ImreadEvents(k)
                        \o <<Event("raise", idx, Channels(strategy)[k], NoPath, NoPath)>>
    /\ pc' = "raised"
    /\ UNCHANGED <<input, out_dir, start, end, clean, n_frames, ext, frames,
                   ret, strategy, yuvIn, idx, dirExists, files>>

\* lines 82-83 / 92-93, then back into _read
Clean ==
    /\ pc = "clean"
    /\ IF clean
       THEN /\ files' = RmTree(files, out_dir)
            /\ dirExists' = FALSE
            /\ log' = Append(log, Event("rmtree", -1, "", out_dir, NoPath))
       ELSE UNCHANGED <<files, dirExists, log>>
    /\ pc' = ret
    /\ UNCHANGED <<input, out_dir, start, end, clean, n_frames, ext, frames,
                   ret, strategy, yuvIn, idx>>

Next ==
    \/ Construct
    \/ GetExt
    \/ IfYuv
    \/ IfY
    \/ IfMp4
    \/ Call
    \/ ImreadStore
    \/ ImreadRaise
    \/ Clean

Spec == Init /\ [][Next]_vars
\* ---------------------------------------------------------------- properties
Supported(e) == e \in { <<"yuv">>, <<"y">>, <<"mp4">> }

Positions(e) == { k \in 1..Len(log) : log[k].ev = e }
PositionsAt(e, i) == { k \in Positions(e) : log[k].idx = i }

Completed == pc = "done"

\* C1 as stated: every completed construction with end > start, whatever the
\* input path, holds exactly the frames start..end-1.
C1_AnyPath ==
    (Completed /\ end > start) => DOMAIN frames = start..(end - 1)

\* C1 amended: a completed construction with end > start whose extension is
\* yuv, y or mp4 holds exactly the frames start..end-1; with any other
\* extension it holds no frame at all.
C1_SupportedPath ==
    (Completed /\ end > start) =>
        DOMAIN frames = IF Supported(ext) THEN start..(end - 1) ELSE {}

C1_Witness ==
    Completed /\ IsYuv(ext) /\ start = 1 /\ end = 2 /\ DOMAIN frames = {1}

\* C2: after a completed construction every frame has the keys y, u, v for a
\* yuv or mp4 input and the key y alone for a y input, so all frames of one
\* reader have the same keys.
C2_ChannelKeys ==
    Completed =>
        /\ \A i \in DOMAIN frames :
              /\ (IsYuv(ext) \/ IsMp4(ext)) => DOMAIN frames[i] = {"y", "u", "v"}
              /\ IsY(ext) => DOMAIN frames[i] = {"y"}
        /\ \A i, j \in DOMAIN frames : DOMAIN frames[i] = DOMAIN frames[j]

C2_Witness ==
    Completed /\ IsY(ext) /\ DOMAIN frames = {0, 1}

\* C3 as stated: whenever construction completes with clean set, out_dir
\* does not exist afterwards, for every input path.
C3_DirGone ==
    (Completed /\ clean) => ~dirExists

C5_Unsupported ==
    (end > start /\ ext # NoExt /\ ~Supported(ext)) =>
        /\ pc \in {"if_yuv", "if_y", "if_mp4", "done"}
        /\ (Completed \/ ENABLED Next)
        /\ log = << >>
        /\ DOMAIN frames = {}

C5_Witness ==
    Completed /\ end > start /\ ext = <<"avi">>

\* C6 as stated: for every strategy and every out_dir, the file read for
\* channel c of frame idx is {out_dir}/{idx}_{c}.png, inside the directory
\* that was handed to the converter for that index.
C6_ReadsInsideOutDir ==
    \A k \in Positions("imread") :
        \E j \in PositionsAt("call", log[k].idx) :
            /\ j < k
            /\ Resolve(log[k].path) =
                   Resolve(log[j].dir \o <<"/">> \o PngName(log[k].idx, log[k].chan))
            /\ IsPrefix(Resolve(log[j].dir), Resolve(log[k].path))

\* C7: a converter call never ends the construction, whatever it wrote; an
\* image missing at the read of frame k raises out of the constructor:
\* nothing runs afterwards, no frame k or later is stored, no converter is
\* called for an index above k, and out_dir is not removed.
C7_State ==
    /\ (Len(log) > 0 /\ log[Len(log)].ev = "call") => pc = "imread"
    /\ (pc = "imread" /\ \E c \in Seq2Set(Channels(strategy)) : ~Present(c))
           => ~ENABLED ImreadStore
    /\ \A k \in Positions("raise") :
          /\ k = Len(log)
          /\ pc = "raised"
          /\ ~ENABLED Next
          /\ \A i \in DOMAIN frames : i < log[k].idx
          /\ \A j \in Positions("call") : log[j].idx <= log[k].idx
          /\ Positions("rmtree") = {}
          /\ dirExists
    /\ pc = "raised" => Positions("raise") # {}

C7_Step ==
    (pc = "imread" /\ \E c \in Seq2Set(Channels(strategy)) : ~Present(c))
        => (pc' = "raised" /\ frames' = frames /\ files' = files
            /\ dirExists' = dirExists)

C7_MissingImageRaises == [](C7_State) /\ [][C7_Step]_vars

C7_Witness ==
    /\ pc = "raised"
    /\ idx = 1
    /\ clean
    /\ DOMAIN frames = {0}
    /\ end = 2

\* C8: for an mp4 input the transcoder is called exactly once, before every
\* converter call, and every converter call is given the .yuv file the
\* transcoder was told to write, not the mp4 path; for yuv and y inputs the
\* transcoder is never called.
C8_TranscodeFirst ==
    /\ IsMp4(ext) =>
          /\ Cardinality(Positions("ffmpeg")) <= 1
          /\ pc \in {"call", "imread", "clean", "done", "raised"}
                => Cardinality(Positions("ffmpeg")) = 1
          /\ \A k \in Positions("call") :
                /\ \E j \in Positions("ffmpeg") :
                      /\ j < k
                      /\ log[j].path = input
                      /\ log[k].path = log[j].dir
                /\ log[k].path # input
                /\ get_file_extension(log[k].path) = <<"yuv">>
    /\ (IsYuv(ext) \/ IsY(ext)) =>
          /\ Positions("ffmpeg") = {}
          /\ \A k \in Positions("call") : log[k].path = input

C8_Witness ==
    Completed /\ IsMp4(ext) /\ DOMAIN frames = {0, 1}

\* C9: frames are handled one after the other in ascending order: one
\* converter call per index, the images of idx are read only after that call,
\* the call for idx+1 comes only after frame idx is stored, and out_dir is
\* removed only after frame end-1 is stored.
C9_Sequential ==
    /\ \A k \in Positions("call") :
          /\ Cardinality(PositionsAt("call", log[k].idx)) = 1
          /\ log[k].idx \in start..(end - 1)
          /\ IF log[k].idx = start
             THEN \A j \in 1..(k - 1) : log[j].ev = "ffmpeg"
             ELSE k > 1 /\ log[k - 1].ev = "store" /\ log[k - 1].idx = log[k].idx - 1
    /\ \A k \in Positions("imread") :
          /\ k > 1
          /\ log[k - 1].ev \in {"call", "imread"}
          /\ log[k - 1].idx = log[k].idx
    /\ \A k \in Positions("store") :
          /\ k > 1
          /\ log[k - 1].ev = "imread"
          /\ log[k - 1].idx = log[k].idx
          /\ log[k].idx \in DOMAIN frames
    /\ \A i \in DOMAIN frames : PositionsAt("store", i) # {}
    /\ \A k \in Positions("rmtree") :
          /\ clean
          /\ k > 1
          /\ log[k - 1].ev = "store"
          /\ log[k - 1].idx = end - 1
    /\ (Completed /\ strategy # "none") =>
          /\ \A i \in start..(end - 1) : Cardinality(PositionsAt("call", i)) = 1
          /\ clean => Cardinality(Positions("rmtree")) = 1

C9_Witness ==
    Completed /\ clean /\ strategy = "y" /\ start = 0 /\ end = 2

\* C10 as stated: every image stored under idx was written by this
\* construction's converter call for idx; a file that was in place before
\* the construction is never stored as frame data.
\* (Stated for the images read from inside out_dir, the case the claim names.)
C10_OwnImagesOnly ==
    \A i \in DOMAIN frames :
        \A c \in DOMAIN frames[i] :
            IsPrefix(Resolve(out_dir), Resolve(ImreadPath(strategy, out_dir, i, c)))
                => frames[i][c] = [by |-> "converter", idx |-> i]
====
